---- MODULE Spec2Model ----
(***************************************************************************)
(* Longest non-decreasing subsequence: package lis (LIS, bisectRight) and  *)
(* package lnds (PartitionUnsorted, state.run, state.process,              *)
(* state.result), together with the reference quadraticLIS of the tests.   *)
(*                                                                         *)
(* One behaviour is one differential run on one input lst: LIS(lst, cmp)   *)
(* is executed first, one loop iteration per step, and then                *)
(* PartitionUnsorted(lst, cmp) on the same input.  Go slices are TLA+      *)
(* sequences; every index held in the state is the Go (0-based) index and  *)
(* -1 is the code's "no predecessor" sentinel.                             *)
(***************************************************************************)
EXTENDS Integers, Sequences, FiniteSets, TLC

\* Longest input slice that is explored.
MaxLen == 4
\* Elements are the integers 1..MaxVal (0 is the zero value of a fresh slot).
MaxVal == 3

Values == 1..MaxVal
Inputs == UNION {[1..n -> Values] : n \in 0..MaxLen}

VARIABLES
  lst,          \* the input slice (read-only)
  cmp,          \* the comparator: "Compare" (cmp.Compare) or "arbitrary"
  pc,           \* position of the run
  i,            \* LIS: loop variable of `for i := range lst`
  tails,        \* LIS: tails
  prev,         \* LIS: prev
  low, high,    \* bisectRight: low, high
  sorted, rest, \* LIS: the two output buffers / results
  seqIdx, allIdx, sortedIdx, restIdx,   \* LIS: cursors of the output loop
  st,           \* lnds: state{tails, prev} (elts = lst, cmp = cmp.Compare)
  newIdx,       \* lnds: loop variable of state.run
  puSorted, puNotSorted  \* lnds: results of PartitionUnsorted

vars == <<lst, cmp, pc, i, tails, prev, low, high, sorted, rest,
          seqIdx, allIdx, sortedIdx, restIdx, st, newIdx, puSorted, puNotSorted>>

lisVars == <<i, tails, prev, low, high, sorted, rest,
             seqIdx, allIdx, sortedIdx, restIdx>>
puVars == <<st, newIdx, puSorted, puNotSorted>>

----------------------------------------------------------------------------
\* Go slice access with 0-based indices.
At(s, k) == s[k + 1]
Put(s, k, v) == [s EXCEPT ![k + 1] = v]
InRange(s, k) == k >= 0 /\ k < Len(s)
\* make([]T, n): n zero values.
Make(n) == [k \in 1..n |-> 0]

\* cmp.Compare on integers.
Compare(a, b) == IF a < b THEN -1 ELSE IF a > b THEN 1 ELSE 0

\* The results one call cmp(a, b) can give: cmp.Compare is a total order;
\* an arbitrary comparator may answer anything, differently on each call.
CmpCall(a, b) == IF cmp = "Compare" THEN {Compare(a, b)} ELSE {-1, 0, 1}

----------------------------------------------------------------------------
(* package lis *)

\* Mutant: only a strictly greater element extends the longest subsequence.
extendsBestStrict(c) == c > 0

\* lis.go:118  `cmp(lst[i], lst[idxOfBestTail]) >= 0`
extendsBest(c) == c >= 0

\* Mutant: a left-leaning search, which stops at the first equal entry.
bisectGoesLeftOnEqual(c) == c >= 0

\* lis.go:203  `cmp(vs[mid], target) > 0`
bisectGoesLeft(c) == c > 0

\* Mutant: the arguments of the comparison are swapped.
bestTailCmpSwapped(k, idxOfBestTail) == CmpCall(At(lst, idxOfBestTail), At(lst, k))

\* lis.go:118  the call `cmp(lst[i], lst[idxOfBestTail])`: its possible results
bestTailCmp(k, idxOfBestTail) == CmpCall(At(lst, k), At(lst, idxOfBestTail))

\* Mutant: the closure compares the target with the entry.
bisectCmpSwapped(idx, k) == CmpCall(At(lst, k), At(lst, idx))

\* lis.go:135-137  the closure handed to bisectRight: `cmp(lst[idx], target)`
\* with target = lst[i]
bisectCmp(idx, k) == CmpCall(At(lst, idx), At(lst, k))

\* Mutant: the search runs over the whole of tails.
searchLenWhole(t) == Len(t)

\* lis.go:135  the search runs over tails[:len(tails)-1]
searchLen(t) == Len(t) - 1

\* Mutant: the predecessor is the replaced entry itself.
predOfReplaced(t, replaceIdx) == At(t, replaceIdx)

\* lis.go:143-147  the predecessor of the element written to tails[replaceIdx]
predOf(t, replaceIdx) == IF replaceIdx = 0 THEN -1 ELSE At(t, replaceIdx - 1)

\* lis.go:46-48 and 91-105: the empty input returns nil, nil; otherwise tails
\* and prev are allocated.
LISStart ==
  /\ pc = "LIS"
  /\ IF Len(lst) = 0
       THEN /\ sorted' = <<>>
            /\ rest' = <<>>
            /\ pc' = "LIS_returned"
            /\ UNCHANGED <<tails, prev>>
       ELSE /\ tails' = Make(1)
            /\ prev' = Make(Len(lst))
            /\ pc' = "loop"
            /\ UNCHANGED <<sorted, rest>>
  /\ i' = 0
  /\ UNCHANGED <<lst, cmp, low, high, seqIdx, allIdx, sortedIdx, restIdx>>
  /\ UNCHANGED puVars

\* lis.go:109-115: the first element.
LoopFirst ==
  /\ pc = "loop"
  /\ i < Len(lst)
  /\ i = 0
  /\ prev' = Put(prev, 0, -1)
  /\ tails' = Put(tails, 0, 0)
  /\ i' = i + 1
  /\ UNCHANGED <<lst, cmp, pc, low, high, sorted, rest,
                 seqIdx, allIdx, sortedIdx, restIdx>>
  /\ UNCHANGED puVars

\* lis.go:117-124: the fast path, the element extends the longest subsequence.
FastPath ==
  /\ pc = "loop"
  /\ i < Len(lst)
  /\ i # 0
  /\ LET idxOfBestTail == At(tails, Len(tails) - 1) IN
       IF ~InRange(lst, idxOfBestTail)
         THEN /\ pc' = "LIS_panic"
              /\ UNCHANGED <<prev, tails, i>>
         ELSE /\ \E c \in bestTailCmp(i, idxOfBestTail) : extendsBest(c)
              /\ prev' = Put(prev, i, idxOfBestTail)
              /\ tails' = Append(tails, i)
              /\ i' = i + 1
              /\ pc' = "loop"
  /\ UNCHANGED <<lst, cmp, low, high, sorted, rest,
                 seqIdx, allIdx, sortedIdx, restIdx>>
  /\ UNCHANGED puVars

\* lis.go:117-118, 135 and 199-200: the element is less than the best tail;
\* bisectRight is entered on tails[:len(tails)-1].
SlowPath ==
  /\ pc = "loop"
  /\ i < Len(lst)
  /\ i # 0
  /\ LET idxOfBestTail == At(tails, Len(tails) - 1) IN
       /\ InRange(lst, idxOfBestTail)
       /\ \E c \in bestTailCmp(i, idxOfBestTail) : ~extendsBest(c)
  /\ low' = 0
  /\ high' = searchLen(tails)
  /\ pc' = "bisectRight"
  /\ UNCHANGED <<lst, cmp, i, tails, prev, sorted, rest,
                 seqIdx, allIdx, sortedIdx, restIdx>>
  /\ UNCHANGED puVars

\* lis.go:201-208: one iteration of bisectRight's loop; vs[mid] is tails[mid]
\* and the comparison is cmp(lst[vs[mid]], lst[i]).
BisectStep ==
  /\ pc = "bisectRight"
  /\ low < high
  /\ LET mid == (low + high) \div 2 IN
       IF ~InRange(tails, mid) \/ ~(mid < searchLen(tails))
            \/ ~InRange(lst, At(tails, mid))
         THEN /\ pc' = "LIS_panic"
              /\ UNCHANGED <<low, high>>
         ELSE /\ \E c \in bisectCmp(At(tails, mid), i) :
                   IF bisectGoesLeft(c)
                     THEN high' = mid /\ low' = low
                     ELSE low' = mid + 1 /\ high' = high
              /\ pc' = "bisectRight"
  /\ UNCHANGED <<lst, cmp, i, tails, prev, sorted, rest,
                 seqIdx, allIdx, sortedIdx, restIdx>>
  /\ UNCHANGED puVars

\* lis.go:209-210 and 143-148: bisectRight returns low as replaceIdx; the
\* element replaces the tail stored there.
Replace ==
  /\ pc = "bisectRight"
  /\ ~(low < high)
  /\ LET replaceIdx == low IN
       IF ~InRange(tails, replaceIdx)
         THEN /\ pc' = "LIS_panic"
              /\ UNCHANGED <<prev, tails, i>>
         ELSE /\ prev' = Put(prev, i, predOf(tails, replaceIdx))
              /\ tails' = Put(tails, replaceIdx, i)
              /\ i' = i + 1
              /\ pc' = "loop"
  /\ low' = 0
  /\ high' = 0
  /\ UNCHANGED <<lst, cmp, sorted, rest, seqIdx, allIdx, sortedIdx, restIdx>>
  /\ UNCHANGED puVars

\* lis.go:153-160: the loop over lst is over; the output buffers are
\* allocated and the cursors set.
OutputInit ==
  /\ pc = "loop"
  /\ i = Len(lst)
  /\ IF Len(lst) - Len(tails) < 0
       THEN /\ pc' = "LIS_panic"
            /\ UNCHANGED <<sorted, rest, seqIdx, allIdx, sortedIdx, restIdx>>
       ELSE /\ sorted' = Make(Len(tails))
            /\ rest' = Make(Len(lst) - Len(tails))
            /\ seqIdx' = At(tails, Len(tails) - 1)
            /\ allIdx' = Len(lst) - 1
            /\ sortedIdx' = Len(tails) - 1
            /\ restIdx' = Len(lst) - Len(tails) - 1
            /\ pc' = "sortedLoop"
  /\ UNCHANGED <<lst, cmp, i, tails, prev, low, high>>
  /\ UNCHANGED puVars

\* lis.go:163-172: the current input element is on the subsequence.
OnChain ==
  /\ pc = "sortedLoop"
  /\ seqIdx = allIdx
  /\ IF ~InRange(sorted, sortedIdx) \/ ~InRange(lst, seqIdx)
       THEN /\ pc' = "LIS_panic"
            /\ UNCHANGED <<sorted, seqIdx, allIdx, sortedIdx>>
       ELSE /\ sorted' = Put(sorted, sortedIdx, At(lst, seqIdx))
            /\ seqIdx' = At(prev, seqIdx)
            /\ allIdx' = allIdx - 1
            /\ sortedIdx' = sortedIdx - 1
            /\ pc' = IF allIdx - 1 < 0 THEN "LIS_returned" ELSE "sortedLoop"
  /\ UNCHANGED <<lst, cmp, i, tails, prev, low, high, rest, restIdx>>
  /\ UNCHANGED puVars

\* lis.go:163 and 174-177: seqIdx is no longer allIdx, the first inner loop
\* is left.
LeaveChain ==
  /\ pc = "sortedLoop"
  /\ seqIdx # allIdx
  /\ pc' = "restLoop"
  /\ UNCHANGED <<lst, cmp>>
  /\ UNCHANGED lisVars
  /\ UNCHANGED puVars

\* Mutant: the element is read at the write cursor, not at allIdx.
OffChainReadsAtCursor ==
  /\ pc = "restLoop"
  /\ seqIdx < allIdx
  /\ IF ~InRange(rest, restIdx) \/ ~InRange(lst, allIdx)
       THEN /\ pc' = "LIS_panic"
            /\ UNCHANGED <<rest, allIdx, restIdx>>
       ELSE /\ rest' = Put(rest, restIdx, At(lst, restIdx))
            /\ allIdx' = allIdx - 1
            /\ restIdx' = restIdx - 1
            /\ pc' = IF allIdx - 1 < 0 THEN "LIS_returned" ELSE "restLoop"
  /\ UNCHANGED <<lst, cmp, i, tails, prev, low, high, sorted,
                 seqIdx, sortedIdx>>
  /\ UNCHANGED puVars

\* lis.go:177-185: the current input element is not on the subsequence.
OffChain ==
  /\ pc = "restLoop"
  /\ seqIdx < allIdx
  /\ IF ~InRange(rest, restIdx) \/ ~InRange(lst, allIdx)
       THEN /\ pc' = "LIS_panic"
            /\ UNCHANGED <<rest, allIdx, restIdx>>
       ELSE /\ rest' = Put(rest, restIdx, At(lst, allIdx))
            /\ allIdx' = allIdx - 1
            /\ restIdx' = restIdx - 1
            /\ pc' = IF allIdx - 1 < 0 THEN "LIS_returned" ELSE "restLoop"
  /\ UNCHANGED <<lst, cmp, i, tails, prev, low, high, sorted,
                 seqIdx, sortedIdx>>
  /\ UNCHANGED puVars

\* lis.go:177 and 162-163: the second inner loop is left, the outer loop
\* goes round.
RejoinChain ==
  /\ pc = "restLoop"
  /\ ~(seqIdx < allIdx)
  /\ pc' = "sortedLoop"
  /\ UNCHANGED <<lst, cmp>>
  /\ UNCHANGED lisVars
  /\ UNCHANGED puVars

NextLIS ==
  \/ LISStart
  \/ LoopFirst
  \/ FastPath
  \/ SlowPath
  \/ BisectStep
  \/ Replace
  \/ OutputInit
  \/ OnChain
  \/ LeaveChain
  \/ OffChain
  \/ RejoinChain

----------------------------------------------------------------------------
(* package lnds; the comparator is cmp.Compare *)

\* lnds.go:119-121
eltIdxCmp(a, b) == Compare(At(lst, a), At(lst, b))

\* slices.BinarySearchFunc(x, target, st.eltIdxCmp) as called at lnds.go:92:
\* the leftmost position whose entry does not compare less than target.
RECURSIVE BinarySearchLoop(_, _, _, _)
BinarySearchLoop(x, target, lo, hi) ==
  IF lo < hi
    THEN LET h == (lo + hi) \div 2 IN
           IF eltIdxCmp(At(x, h), target) < 0
             THEN BinarySearchLoop(x, target, h + 1, hi)
             ELSE BinarySearchLoop(x, target, lo, h)
    ELSE lo

BinarySearchFunc(x, target) ==
  LET pos == BinarySearchLoop(x, target, 0, Len(x)) IN
    [pos |-> pos,
     found |-> pos < Len(x) /\ eltIdxCmp(At(x, pos), target) = 0]

\* lnds.go:96-109: the loop entered when the search found an equal entry.
\* replaceIdx itself is handed to eltIdxCmp as an element index; `continue`
\* (case 0) and `break` (case +1, which leaves only the switch) both go round
\* again, so the loop ends by `return` (case -1) or by indexing elts past its
\* end.
RECURSIVE equalRunLoop(_, _)
equalRunLoop(replaceIdx, n) ==
  LET r == replaceIdx + 1 IN
    IF ~InRange(lst, r)
      THEN "panic"
      ELSE IF eltIdxCmp(r, n) = -1
             THEN "return"
             ELSE equalRunLoop(r, n)

\* lnds.go:77-117: state.process(newIdx) applied to s = [tails, prev].
process(s, n) ==
  IF n = 0
    THEN [tails |-> Put(s.tails, 0, 0), prev |-> Put(s.prev, 0, -1),
          panic |-> FALSE]
    ELSE
      LET curBestIdx == At(s.tails, Len(s.tails) - 1) IN
        IF eltIdxCmp(n, curBestIdx) >= 0
          THEN [tails |-> Append(s.tails, n),
                prev |-> Put(s.prev, n, curBestIdx),
                panic |-> FALSE]
          ELSE
            LET bs == BinarySearchFunc(s.tails, n) IN
              IF bs.found
                THEN [tails |-> s.tails, prev |-> s.prev,
                      panic |-> equalRunLoop(bs.pos, n) = "panic"]
                ELSE [tails |-> Put(s.tails, bs.pos, n),
                      prev |-> Put(s.prev, n, IF bs.pos = 0 THEN -1
                                              ELSE At(s.tails, bs.pos - 1)),
                      panic |-> FALSE]

\* lnds.go:132-148: the loops of state.result, one iteration per unfolding.
RECURSIVE resultLoop(_, _, _, _, _, _, _)
resultLoop(s, sq, al, sIdx, uIdx, srt, uns) ==
  IF ~(al >= 0)
    THEN [sorted |-> srt, unsorted |-> uns, status |-> "returned"]
    ELSE IF sq = al
      THEN IF ~InRange(srt, sIdx)
             THEN [sorted |-> srt, unsorted |-> uns, status |-> "panic"]
             ELSE resultLoop(s, At(s.prev, sq), al - 1, sIdx - 1, uIdx,
                             Put(srt, sIdx, At(lst, sq)), uns)
      ELSE IF sq < al
        THEN IF ~InRange(uns, uIdx)
               THEN [sorted |-> srt, unsorted |-> uns, status |-> "panic"]
               ELSE resultLoop(s, sq, al - 1, sIdx, uIdx - 1,
                               srt, Put(uns, uIdx, At(lst, al)))
        ELSE [sorted |-> srt, unsorted |-> uns, status |-> "spin"]

\* lnds.go:123-151: state.result.
result(s) ==
  resultLoop(s, At(s.tails, Len(s.tails) - 1), Len(lst) - 1,
             Len(s.tails) - 1, Len(lst) - Len(s.tails) - 1,
             Make(Len(s.tails)), Make(Len(lst) - Len(s.tails)))

\* lnds.go:47-55: the state is built; make([]int, 1, len(lst)) panics when
\* len(lst) = 0, the length 1 being larger than the capacity 0.
PartitionUnsorted ==
  /\ pc = "LIS_returned"
  /\ IF 1 > Len(lst)
       THEN /\ pc' = "PU_panic"
            /\ UNCHANGED st
       ELSE /\ st' = [tails |-> Make(1), prev |-> Make(Len(lst))]
            /\ pc' = "run"
  /\ newIdx' = 0
  /\ UNCHANGED <<lst, cmp, puSorted, puNotSorted>>
  /\ UNCHANGED lisVars

\* lnds.go:65-67: one iteration of state.run's loop, a whole call of process.
runProcess ==
  /\ pc = "run"
  /\ newIdx < Len(lst)
  /\ LET r == process(st, newIdx) IN
       IF r.panic
         THEN /\ pc' = "PU_panic"
              /\ UNCHANGED <<st, newIdx>>
         ELSE /\ st' = [tails |-> r.tails, prev |-> r.prev]
              /\ newIdx' = newIdx + 1
              /\ pc' = "run"
  /\ UNCHANGED <<lst, cmp, puSorted, puNotSorted>>
  /\ UNCHANGED lisVars

\* lnds.go:69-72: every element is on the subsequence, the input is returned.
runAlreadySorted ==
  /\ pc = "run"
  /\ newIdx = Len(lst)
  /\ Len(st.tails) = Len(lst)
  /\ puSorted' = lst
  /\ puNotSorted' = <<>>
  /\ pc' = "PU_returned"
  /\ UNCHANGED <<lst, cmp, st, newIdx>>
  /\ UNCHANGED lisVars

\* lnds.go:74 and 123-151: the general path through state.result.
runResult ==
  /\ pc = "run"
  /\ newIdx = Len(lst)
  /\ Len(st.tails) # Len(lst)
  /\ LET r == result(st) IN
       /\ puSorted' = r.sorted
       /\ puNotSorted' = r.unsorted
       /\ pc' = IF r.status = "returned" THEN "PU_returned" ELSE "PU_" \o r.status
  /\ UNCHANGED <<lst, cmp, st, newIdx>>
  /\ UNCHANGED lisVars

NextPU ==
  \/ PartitionUnsorted
  \/ runProcess
  \/ runAlreadySorted
  \/ runResult

Next == NextLIS \/ NextPU

----------------------------------------------------------------------------
(* the reference of the tests *)

\* lnds.go:305-318
RECURSIVE cmpElts(_, _, _)
cmpElts(a, b, k) ==
  IF k > Len(a)
    THEN 0
    ELSE IF Compare(a[k], b[k]) # 0
           THEN Compare(a[k], b[k])
           ELSE cmpElts(a, b, k + 1)

cmpSeq(a, b) ==
  IF Compare(Len(a), Len(b)) # 0
    THEN 0 - Compare(Len(a), Len(b))
    ELSE cmpElts(a, b, 1)

\* lnds.go:324-346
RECURSIVE findLIS(_, _, _)
findLIS(vs, acc, best) ==
  IF Len(vs) = 0
    THEN IF cmpSeq(acc, best) < 0 THEN acc ELSE best
    ELSE IF Len(best) > 0 /\ Len(vs) + Len(acc) < Len(best)
      THEN best
      ELSE
        LET elt == Head(vs)
            vs1 == Tail(vs)
            best1 == IF Len(acc) = 0 \/ elt >= acc[Len(acc)]
                       THEN findLIS(vs1, Append(acc, elt), best)
                       ELSE best
        IN findLIS(vs1, acc, best1)

\* lnds.go:301-354
quadraticLIS(l) == findLIS(l, <<>>, <<>>)

----------------------------------------------------------------------------
InitState ==
  /\ lst \in Inputs
  /\ pc = "LIS"
  /\ i = 0
  /\ tails = <<>>
  /\ prev = <<>>
  /\ low = 0
  /\ high = 0
  /\ sorted = <<>>
  /\ rest = <<>>
  /\ seqIdx = 0
  /\ allIdx = 0
  /\ sortedIdx = 0
  /\ restIdx = 0
  /\ st = [tails |-> <<>>, prev |-> <<>>]
  /\ newIdx = 0
  /\ puSorted = <<>>
  /\ puNotSorted = <<>>

\* LIS, then PartitionUnsorted, called with cmp.Compare.
Init == InitState /\ cmp = "Compare"

Spec == Init /\ [][Next]_vars

\* The calls are synchronous and single-threaded: a run that can take a step
\* takes it.
SpecFair == Spec /\ WF_vars(Next)

\* LIS called with an arbitrary comparator.
InitAny == InitState /\ cmp = "arbitrary"

SpecAny == InitAny /\ [][NextLIS]_vars

SpecAnyFair == SpecAny /\ WF_vars(NextLIS)

----------------------------------------------------------------------------
(* vocabulary of the properties *)

Positions(l) == 1..Len(l)

\* The subsequence of l at the positions S, in increasing position order.
Pick(l, S) ==
  LET F[k \in 0..Len(l)] ==
        IF k = 0 THEN <<>>
        ELSE IF k \in S THEN Append(F[k - 1], l[k]) ELSE F[k - 1]
  IN F[Len(l)]

IsNonDecreasing(s) == \A k \in 1..(Len(s) - 1) : Compare(s[k], s[k + 1]) # 1

\* Sets of positions among the first p of lst whose elements are non-decreasing.
NDPositionSets(p) ==
  {S \in SUBSET (1..p) : \A a, b \in S : a < b => lst[a] <= lst[b]}

SetMax(S) == CHOOSE m \in S : \A x \in S : x <= m

\* Length of the longest non-decreasing subsequence of the first p elements.
LNDSLen(p) == SetMax({Cardinality(S) : S \in NDPositionSets(p)})

\* The longest non-decreasing subsequences of lst, as sequences of values.
Longest ==
  {Pick(lst, S) : S \in {T \in NDPositionSets(Len(lst)) :
                           Cardinality(T) = LNDSLen(Len(lst))}}

LexLess(a, b) ==
  \E k \in 1..Len(a) : a[k] < b[k] /\ \A j \in 1..(k - 1) : a[j] = b[j]

\* A sorted copy of l (insertion sort).
RECURSIVE InsertSorted(_, _)
InsertSorted(s, v) ==
  IF s = <<>> THEN <<v>>
  ELSE IF v < Head(s) THEN <<v>> \o s
  ELSE <<Head(s)>> \o InsertSorted(Tail(s), v)

RECURSIVE SortedCopy(_)
SortedCopy(l) ==
  IF l = <<>> THEN <<>> ELSE InsertSorted(SortedCopy(Tail(l)), Head(l))

\* Length of the longest common subsequence of a and b.
RECURSIVE LCSLen(_, _)
LCSLen(a, b) ==
  IF a = <<>> \/ b = <<>> THEN 0
  ELSE IF Head(a) = Head(b) THEN 1 + LCSLen(Tail(a), Tail(b))
  ELSE LET x == LCSLen(Tail(a), b)
           y == LCSLen(a, Tail(b))
       IN IF x >= y THEN x ELSE y

----------------------------------------------------------------------------
\* C1: the kept sequence LIS returns is as long as the longest non-decreasing
\* subsequence of the input, which is also the length of the longest common
\* subsequence of the input and its sorted copy.
C1_Maximality ==
  pc = "LIS_returned" =>
    /\ Len(sorted) = LNDSLen(Len(lst))
    /\ Len(sorted) = LCSLen(lst, SortedCopy(lst))

C1_Witness ==
  /\ pc = "LIS_returned"
  /\ Len(lst) >= 4
  /\ Len(sorted) = 2
  /\ sorted[1] = sorted[2]

\* C2: kept and removed are complementary subsequences of the input: the
\* positions split into two sets, kept being the input at the first and removed
\* the input at the second, each in increasing position order.
C2_Partition ==
  pc = "LIS_returned" =>
    /\ Len(sorted) + Len(rest) = Len(lst)
    /\ \E S \in SUBSET Positions(lst) :
         /\ sorted = Pick(lst, S)
         /\ rest = Pick(lst, Positions(lst) \ S)

C2_Witness ==
  /\ pc = "LIS_returned"
  /\ Len(sorted) >= 2
  /\ Len(rest) >= 2
  /\ rest[1] # rest[2]

\* C3: the kept sequence LIS returns is non-decreasing under the comparator.
C3_NonDecreasing == pc = "LIS_returned" => IsNonDecreasing(sorted)

C3_Witness ==
  /\ pc = "LIS_returned"
  /\ Len(sorted) >= 3
  /\ sorted[1] = sorted[2]
  /\ sorted[2] < sorted[3]
  /\ rest # <<>>

\* C4: the kept sequence LIS returns is the one quadraticLIS returns, the
\* lexicographically smallest of the longest non-decreasing subsequences.
C4_MatchesQuadratic ==
  pc = "LIS_returned" =>
    /\ sorted = quadraticLIS(lst)
    /\ sorted \in Longest
    /\ \A t \in Longest : t = sorted \/ LexLess(sorted, t)

C4_Witness ==
  /\ pc = "LIS_returned"
  /\ Len(sorted) >= 2
  /\ Cardinality(Longest) >= 3
  /\ \E t \in Longest : t[Len(t)] = sorted[Len(sorted)] /\ t # sorted

\* C5: on the empty input LIS and PartitionUnsorted each return two empty
\* sequences and do not fail.
C5_EmptyInput ==
  Len(lst) = 0 =>
    /\ pc \notin {"LIS_panic", "PU_panic"}
    /\ pc = "LIS_returned" => (sorted = <<>> /\ rest = <<>>)
    /\ pc = "PU_returned" => (puSorted = <<>> /\ puNotSorted = <<>>)

\* C6: with any comparator at all, LIS never indexes out of range and returns.
C6_NoCrash == [](pc # "LIS_panic") /\ <>(pc = "LIS_returned")

C6_Witness ==
  /\ cmp = "arbitrary"
  /\ pc = "LIS_returned"
  /\ ~IsNonDecreasing(sorted)
  /\ Len(rest) >= 1

\* C7: after each position has been processed, tails[k] is the end of a
\* non-decreasing subsequence of length k+1 of the prefix whose last element is
\* the smallest such a subsequence can have, and len(tails) is the greatest
\* length there is.
C7_TailsInvariant ==
  (pc = "loop" /\ i >= 1) =>
    /\ Len(tails) = LNDSLen(i)
    /\ \A k \in 1..Len(tails) :
         /\ \E S \in NDPositionSets(i) :
              Cardinality(S) = k /\ SetMax(S) = tails[k] + 1
         /\ \A S \in NDPositionSets(i) :
              Cardinality(S) = k => lst[tails[k] + 1] <= lst[SetMax(S)]

C7_Witness ==
  /\ pc = "loop"
  /\ i = Len(lst)
  /\ Len(tails) >= 3
  /\ tails[1] > tails[2]

\* C8: in the slow path of state.process, when the search lands on a tail
\* equal to the new element, the element overwrites the first tail strictly
\* greater than it, with the tail before that as its predecessor.
C8_EqualRun ==
  [][(/\ pc = "run"
      /\ newIdx >= 1
      /\ newIdx < Len(lst)
      /\ eltIdxCmp(newIdx, At(st.tails, Len(st.tails) - 1)) < 0
      /\ BinarySearchFunc(st.tails, newIdx).found)
     =>
     LET r == Cardinality({k \in 0..(Len(st.tails) - 1) :
                             eltIdxCmp(At(st.tails, k), newIdx) <= 0})
     IN /\ pc' = "run"
        /\ st'.tails = Put(st.tails, r, newIdx)
        /\ At(st'.prev, newIdx) =
             (IF r = 0 THEN -1 ELSE At(st.tails, r - 1))]_vars

\* C9: the output loop of LIS keeps seqIdx <= allIdx and every write in
\* bounds and into a fresh slot, takes allIdx down by one at every write, and
\* ends with all four cursors at -1 and every slot written.
C9_LoopInv ==
  /\ pc \in {"sortedLoop", "restLoop"} =>
       /\ seqIdx <= allIdx
       /\ allIdx >= 0
       /\ seqIdx = allIdx =>
            (InRange(sorted, sortedIdx) /\ At(sorted, sortedIdx) = 0)
       /\ seqIdx < allIdx =>
            (InRange(rest, restIdx) /\ At(rest, restIdx) = 0)
  /\ pc # "LIS_panic"
  /\ (pc = "LIS_returned" /\ Len(lst) > 0) =>
       /\ allIdx = -1
       /\ seqIdx = -1
       /\ sortedIdx = -1
       /\ restIdx = -1
       /\ \A k \in 1..Len(sorted) : sorted[k] # 0
       /\ \A k \in 1..Len(rest) : rest[k] # 0

C9_OutputLoop ==
  /\ []C9_LoopInv
  /\ [][(pc \in {"sortedLoop", "restLoop"} /\ allIdx' # allIdx)
          => allIdx' = allIdx - 1]_vars
  /\ [][(pc \in {"sortedLoop", "restLoop"} /\ pc' = pc)
          => allIdx' = allIdx - 1]_vars
  /\ (pc = "sortedLoop") ~> (pc = "LIS_returned")

C9_Witness ==
  /\ pc = "LIS_returned"
  /\ Len(sorted) >= 2
  /\ Len(rest) >= 2
  /\ allIdx = -1
  /\ At(tails, Len(tails) - 1) < Len(lst) - 1

\* C10: on a non-empty input PartitionUnsorted completes and returns what
\* LIS returns.
C10_SameAsLIS ==
  Len(lst) > 0 =>
    /\ pc # "PU_panic"
    /\ pc = "PU_returned" => (puSorted = sorted /\ puNotSorted = rest)

====
